---- MODULE Spec2Model ----
(***************************************************************************)
(* lecture_4/pin_cheat_list.ipynb: a notebook that computes inertia data   *)
(* with trimesh, loads two_bodies.urdf into pinocchio, shows it in meshcat *)
(* and inspects Model, Data and SE3 values.                                *)
(*                                                                         *)
(* A run is "Run All" on a fresh kernel: the statements of the code cells  *)
(* execute one after the other in document order and the run stops at the  *)
(* first statement that raises.                                            *)
(*                                                                         *)
(* Numbers are exact: rigid transforms have integer entries (rotations are *)
(* signed permutation matrices), masses and volumes are rationals.         *)
(***************************************************************************)
EXTENDS Integers, Sequences, FiniteSets, TLC

VARIABLES pc, status, bound, trace, waiting, server, net,
          urdf, box_one, cylinder, printed,
          model, data, written, reads, q,
          LINK_ID, iMd, shown, M, outM

vars == <<pc, status, bound, trace, waiting, server, net,
          urdf, box_one, cylinder, printed,
          model, data, written, reads, q,
          LINK_ID, iMd, shown, M, outM>>

(***************************************************************************)
(* Bounds of the model.                                                    *)
(***************************************************************************)
\* largest absolute coordinate of a translation drawn by SE3.Random()
MaxCoord == 1
\* largest absolute coordinate of a joint translation in a configuration q
MaxQ == 1

(***************************************************************************)
(* Exact rationals <<numerator, denominator>>, denominator > 0.            *)
(***************************************************************************)
RECURSIVE Gcd(_, _)
Gcd(a, b) == IF b = 0 THEN a ELSE Gcd(b, a % b)
Abs(n) == IF n < 0 THEN -n ELSE n
\* the fraction n/d in lowest terms
Rat(n, d) == LET g == Gcd(Abs(n), Abs(d))
                 sgn == IF d < 0 THEN -1 ELSE 1
             IN <<sgn * (n \div g), sgn * (d \div g)>>
RatMul(a, b) == LET x == Rat(a[1], b[2])
                    y == Rat(b[1], a[2])
                IN Rat(x[1] * y[1], x[2] * y[2])
RatDiv(a, b) == RatMul(a, Rat(b[2], b[1]))
RatEq(a, b) == a[1] * b[2] = b[1] * a[2]

(***************************************************************************)
(* 3-vectors, 3x3 matrices and rigid transforms (pin.SE3).                 *)
(***************************************************************************)
Dot(u, v) == u[1] * v[1] + u[2] * v[2] + u[3] * v[3]
Col(A, j) == <<A[1][j], A[2][j], A[3][j]>>
MatMul(A, B) == [i \in 1..3 |-> [j \in 1..3 |-> Dot(A[i], Col(B, j))]]
MatVec(A, v) == [i \in 1..3 |-> Dot(A[i], v)]
Transpose(A) == [i \in 1..3 |-> [j \in 1..3 |-> A[j][i]]]
VecAdd(u, v) == [i \in 1..3 |-> u[i] + v[i]]
VecNeg(u) == [i \in 1..3 |-> -u[i]]
Identity3 == <<<<1, 0, 0>>, <<0, 1, 0>>, <<0, 0, 1>>>>
Zero3 == <<0, 0, 0>>
Det(A) == A[1][1] * (A[2][2] * A[3][3] - A[2][3] * A[3][2])
        - A[1][2] * (A[2][1] * A[3][3] - A[2][3] * A[3][1])
        + A[1][3] * (A[2][1] * A[3][2] - A[2][2] * A[3][1])

\* pin.SE3(rotation, translation)
SE3(R, p) == [rotation |-> R, translation |-> p]
SE3Identity == SE3(Identity3, Zero3)
\* A * B: (Ra Rb, pa + Ra pb)
SE3Mul(A, B) == SE3(MatMul(A.rotation, B.rotation),
                    VecAdd(A.translation, MatVec(A.rotation, B.translation)))
\* A.inverse(): (Ra^T, -Ra^T pa)
inverseNoRotation(A) == SE3(Transpose(A.rotation), VecNeg(A.translation))
inverse(A) == SE3(Transpose(A.rotation),
                  VecNeg(MatVec(Transpose(A.rotation), A.translation)))

\* the rotations with entries in {-1, 0, 1}: signed permutation matrices of
\* determinant 1
Signs == {-1, 1}
Perms == {p \in [1..3 -> 1..3] : \A i, j \in 1..3 : i # j => p[i] # p[j]}
SignedPerm(p, s) == [i \in 1..3 |-> [j \in 1..3 |-> IF p[i] = j THEN s[i] ELSE 0]]
Rotations == {R \in {SignedPerm(p, s) : p \in Perms, s \in [1..3 -> Signs]} :
                Det(R) = 1}
Coords(n) == (-n)..n
Translations(n) == {<<x, y, z>> : x \in Coords(n), y \in Coords(n), z \in Coords(n)}
\* the values pin.SE3.Random() can return, within the bound
SE3Random == {SE3(R, p) : R \in Rotations, p \in Translations(MaxCoord)}

(***************************************************************************)
(* 1. URDF + trimesh (cells at lines 42-47, 67-70, 86-89).                 *)
(***************************************************************************)
\* cylinder_mass = 5
cylinder_mass == 5
\* box_one.density = 7800
steel_density == 7800
\* np.pi as an exact rational
Pi == Rat(355, 113)

\* tr.primitives.Box(extents = [.4, .2, .1])
Box == [extents |-> <<Rat(4, 10), Rat(2, 10), Rat(1, 10)>>, density |-> Rat(1, 1)]
\* tr.primitives.Cylinder(radius=.05, height=.15); the transform is the
\* rotation part of primitive.transform, an integer matrix over a denominator
Cylinder == [radius |-> Rat(5, 100), height |-> Rat(15, 100), density |-> Rat(1, 1),
             transform |-> [num |-> Identity3, den |-> 1]]
\* box_one.volume: the product of the extents
BoxVolume(b) == RatMul(b.extents[1], RatMul(b.extents[2], b.extents[3]))
\* cylinder.volume: pi * radius^2 * height
CylinderVolume(c) == RatMul(Pi, RatMul(RatMul(c.radius, c.radius), c.height))
\* .mass: density times volume
BoxMass(b) == RatMul(b.density, BoxVolume(b))
CylinderMass(c) == RatMul(c.density, CylinderVolume(c))
\* cylinder.density = cylinder_mass / cylinder.volume
DensityForMassWrong(c, m) == [c EXCEPT !.density = Rat(m, 1)]
DensityForMass(c, m) == [c EXCEPT !.density = RatDiv(Rat(m, 1), CylinderVolume(c))]
\* tr.transformations.euler_matrix(1, 0, 0, axes='sxyz'): a rotation about x;
\* (3/5, 4/5) stands for (cos 1, sin 1) so that the matrix is exactly a rotation
euler_matrix_x == [num |-> <<<<5, 0, 0>>, <<0, 3, -4>>, <<0, 4, 3>>>>, den |-> 5]
\* cylinder.apply_transform(matrix), matrix rigid: primitive.transform is
\* multiplied on the left; radius, height and density are kept
apply_transform(c, T) ==
    [c EXCEPT !.transform = [num |-> MatMul(T.num, c.transform.num),
                             den |-> T.den * c.transform.den]]

(***************************************************************************)
(* two_bodies.urdf as the notebook describes it (lines 25-28): links       *)
(* world, body_one, body_two; fixed_joint world -> body_one;               *)
(* floating_joint world -> body_two. The joint origins are not given.      *)
(***************************************************************************)
RotZ == <<<<0, -1, 0>>, <<1, 0, 0>>, <<0, 0, 1>>>>
RotX == <<<<1, 0, 0>>, <<0, 0, -1>>, <<0, 1, 0>>>>
Origins == {SE3Identity, SE3(RotZ, <<1, 0, 0>>), SE3(RotX, <<0, 2, 1>>)}

UrdfLinks == {"world", "body_one", "body_two"}
fixed_joint(o) == [name |-> "fixed_joint", type |-> "fixed",
                   parent |-> "world", child |-> "body_one", origin |-> o]
floating_joint_loop(o) == [name |-> "floating_joint", type |-> "floating",
                           parent |-> "body_two", child |-> "body_two", origin |-> o]
floating_joint(o) == [name |-> "floating_joint", type |-> "floating",
                      parent |-> "world", child |-> "body_two", origin |-> o]
\* the file, with its joints in either order
TwoBodies == {[status |-> "ok", links |-> UrdfLinks, joints |-> js] :
                js \in UNION {{<<fixed_joint(a), floating_joint(b)>>,
                               <<floating_joint(b), fixed_joint(a)>>} :
                              a \in Origins, b \in Origins}}
\* what MODEL_PATH can hold when line 129 runs
NoFile == [status |-> "missing", links |-> {}, joints |-> <<>>]
BadFile == [status |-> "malformed", links |-> {}, joints |-> <<>>]
UrdfFiles == TwoBodies \cup {NoFile, BadFile}

Range(s) == {s[i] : i \in DOMAIN s}
RootLinks(u) == {l \in u.links : \A j \in Range(u.joints) : j.child # l}
RECURSIVE Reach(_, _)
Reach(u, S) ==
    LET T == S \cup {j.child : j \in {k \in Range(u.joints) : k.parent \in S}}
    IN IF T = S THEN S ELSE Reach(u, T)
\* the joint graph is a tree rooted at link r
IsTreeRootedAt(u, r) ==
    /\ RootLinks(u) = {r}
    /\ \A j \in Range(u.joints) : j.parent \in u.links /\ j.child \in u.links
    /\ \A l \in u.links \ {r} :
          Cardinality({i \in DOMAIN u.joints : u.joints[i].child = l}) = 1
    /\ Reach(u, {r}) = u.links
\* the URDF parser accepts the file
Parses(u) == u.status = "ok" /\ \E r \in u.links : IsTreeRootedAt(u, r)

(***************************************************************************)
(* 2. pinocchio: Model, Data, forward kinematics. Sequences hold joints    *)
(* and frames; an index is the Python index, so At(s, 0) is the first.     *)
(***************************************************************************)
At(s, i) == s[i + 1]
\* JointModelFreeFlyer: nq = 7 (translation, quaternion x y z w), nv = 6
FreeFlyerNq == 7
FreeFlyerNv == 6
NoModel == [built |-> FALSE]
NoData == [created |-> FALSE]

\* a model holding the universe joint and the universe frame only
EmptyModel ==
    [built |-> TRUE,
     names |-> <<"universe">>, parents |-> <<0>>,
     jointPlacements |-> <<SE3Identity>>,
     nqs |-> <<0>>, nvs |-> <<0>>, idx_qs |-> <<0>>,
     nq |-> 0, nv |-> 0,
     frames |-> <<[name |-> "universe", type |-> "FIXED_JOINT",
                   parent |-> 0, placement |-> SE3Identity]>>]
njoints(m) == Len(m.names)
nframes(m) == Len(m.frames)
\* model.addJoint(parent, JointModelFreeFlyer(), placement, name); the new
\* joint gets index njoints
addJoint(m, parent, placement, name) ==
    [m EXCEPT !.names = Append(@, name), !.parents = Append(@, parent),
              !.jointPlacements = Append(@, placement),
              !.nqs = Append(@, FreeFlyerNq), !.nvs = Append(@, FreeFlyerNv),
              !.idx_qs = Append(@, m.nq),
              !.nq = @ + FreeFlyerNq, !.nv = @ + FreeFlyerNv]
addFrame(m, name, type, parent, placement) ==
    [m EXCEPT !.frames = Append(@, [name |-> name, type |-> type,
                                     parent |-> parent, placement |-> placement])]
\* the index of the first frame with this name and type, nframes when none
RECURSIVE FindFrame(_, _, _, _)
FindFrame(m, name, type, i) ==
    IF i >= nframes(m) THEN nframes(m)
    ELSE IF At(m.frames, i).name = name /\ At(m.frames, i).type = type THEN i
    ELSE FindFrame(m, name, type, i + 1)
\* model.getBodyId(name): the frame of type BODY with this name
getBodyIdJoint(m, name) == FindFrame(m, name, "JOINT", 0)
getBodyId(m, name) == FindFrame(m, name, "BODY", 0)

\* the root link of the file enters the model: under a root joint when one
\* is passed, fixed to the universe otherwise
addRootLink(m, link, root_joint) ==
    IF root_joint = "JointModelFreeFlyer"
    THEN LET m1 == addJoint(m, 0, SE3Identity, "root_joint")
             m2 == addFrame(m1, "root_joint", "JOINT", njoints(m), SE3Identity)
         IN addFrame(m2, link, "BODY", njoints(m), SE3Identity)
    ELSE LET m1 == addFrame(m, "root_joint", "FIXED_JOINT", 0, SE3Identity)
         IN addFrame(m1, link, "BODY", 0, SE3Identity)
\* one joint of the file and its child link enter the model
addUrdfJoint(m, j) ==
    LET pf == At(m.frames, FindFrame(m, j.parent, "BODY", 0))
        placement == SE3Mul(pf.placement, j.origin)
    IN IF j.type = "floating"
       THEN LET m1 == addJoint(m, pf.parent, placement, j.name)
                m2 == addFrame(m1, j.name, "JOINT", njoints(m), SE3Identity)
            IN addFrame(m2, j.child, "BODY", njoints(m), SE3Identity)
       ELSE LET m1 == addFrame(m, j.name, "FIXED_JOINT", pf.parent, placement)
            IN addFrame(m1, j.child, "BODY", pf.parent, placement)
\* the joints of the file, parents before children
RECURSIVE addUrdfJoints(_, _)
addUrdfJoints(m, js) ==
    IF js = <<>> THEN m
    ELSE LET ready == {i \in DOMAIN js : FindFrame(m, js[i].parent, "BODY", 0) < nframes(m)}
             i == CHOOSE k \in ready : \A l \in ready : k <= l
         IN addUrdfJoints(addUrdfJoint(m, js[i]),
                          SubSeq(js, 1, i - 1) \o SubSeq(js, i + 1, Len(js)))
\* pin.buildModelsFromUrdf(filename, package_dirs, root_joint): the model
buildModelsFromUrdf(u, root_joint) ==
    LET root == CHOOSE r \in u.links : IsTreeRootedAt(u, r)
    IN addUrdfJoints(addRootLink(EmptyModel, root, root_joint), u.joints)

\* pin.neutral(model): zero translation and the identity quaternion per joint
RECURSIVE Concat(_)
Concat(ss) == IF ss = <<>> THEN <<>> ELSE Head(ss) \o Concat(Tail(ss))
neutral(m) ==
    Concat([i \in 1..njoints(m) |->
              IF m.nqs[i] = FreeFlyerNq THEN <<0, 0, 0, 0, 0, 0, 1>> ELSE <<>>])
\* the rotation of a unit quaternion (x, y, z, w)
QuatToRot(x, y, z, w) ==
    <<<<1 - 2 * (y * y + z * z), 2 * (x * y - z * w), 2 * (x * z + y * w)>>,
      <<2 * (x * y + z * w), 1 - 2 * (x * x + z * z), 2 * (y * z - x * w)>>,
      <<2 * (x * z - y * w), 2 * (y * z + x * w), 1 - 2 * (x * x + y * y)>>>>
\* the transform of joint i (Python index) at configuration qq
JointTransform(m, qq, i) ==
    IF At(m.nqs, i) = FreeFlyerNq
    THEN LET o == At(m.idx_qs, i)
         IN SE3(QuatToRot(qq[o + 4], qq[o + 5], qq[o + 6], qq[o + 7]),
                <<qq[o + 1], qq[o + 2], qq[o + 3]>>)
    ELSE SE3Identity

Zeros(n) == [i \in 1..n |-> 0]
\* model.createData()
createData(m) ==
    [created |-> TRUE,
     joints |-> [i \in 1..njoints(m) |-> SE3Identity],
     oMi |-> [i \in 1..njoints(m) |-> SE3Identity],
     oMf |-> [i \in 1..nframes(m) |-> SE3Identity],
     v |-> [i \in 1..njoints(m) |-> Zeros(6)],
     a |-> [i \in 1..njoints(m) |-> Zeros(6)],
     f |-> [i \in 1..njoints(m) |-> Zeros(6)],
     M |-> [i \in 1..m.nv |-> Zeros(m.nv)],
     nle |-> Zeros(m.nv),
     hg |-> Zeros(6),
     Ag |-> [i \in 1..6 |-> Zeros(m.nv)],
     Ig |-> [mass |-> 0, lever |-> Zero3, inertia |-> [i \in 1..3 |-> Zero3]]]
DataFields == {"joints", "oMi", "oMf", "v", "a", "f", "M", "nle", "hg", "Ag", "Ig"}

\* pin.forwardKinematics(model, data, q): joints 1 .. njoints-1 in index order
RECURSIVE forwardKinematicsFrom(_, _, _, _)
forwardKinematicsFrom(m, d, qq, i) ==
    IF i >= njoints(m) THEN d
    ELSE LET jM == JointTransform(m, qq, i)
             liMi == SE3Mul(At(m.jointPlacements, i), jM)
             parent == At(m.parents, i)
             oMi == IF parent > 0 THEN SE3Mul(At(d.oMi, parent), liMi) ELSE liMi
         IN forwardKinematicsFrom(m,
                [d EXCEPT !.joints[i + 1] = jM, !.oMi[i + 1] = oMi], qq, i + 1)
\* pin.updateFramePlacements(model, data): frames 1 .. nframes-1
updateFramePlacements(m, d) ==
    [d EXCEPT !.oMf = [i \in 1..nframes(m) |->
                         IF i = 1 THEN d.oMf[1]
                         ELSE SE3Mul(At(d.oMi, m.frames[i].parent),
                                     m.frames[i].placement)]]
\* pin.framesForwardKinematics(model, data, q)
framesForwardKinematicsAccumulate(m, d, qq) ==
    LET d1 == forwardKinematicsFrom(m, d, qq, 1)
    IN updateFramePlacements(m,
          [d1 EXCEPT !.oMi = [i \in 1..njoints(m) |-> SE3Mul(d.oMi[i], d1.oMi[i])]])
framesForwardKinematics(m, d, qq) ==
    updateFramePlacements(m, forwardKinematicsFrom(m, d, qq, 1))
\* the Data fields framesForwardKinematics writes
FKWrites == {"joints", "oMi", "oMf"}

(***************************************************************************)
(* The notebook: the statements of its code cells in document order.       *)
(* cell: the code cell, line: the line of the statement in the .ipynb,     *)
(* binds: the names the statement binds, field: what it inspects,          *)
(* raises: the statement calls into a library and so may raise.            *)
(***************************************************************************)
S(c, l, k, b, f, r) == [cell |-> c, line |-> l, kind |-> k, binds |-> b,
                        field |-> f, raises |-> r]
Program ==
    << S(1, 42, "import", {"tr"}, "", TRUE),
       S(1, 44, "box", {"box_one"}, "", TRUE),
       S(1, 45, "boxdensity", {}, "", FALSE),
       S(1, 46, "print", {}, "mass", TRUE),
       S(1, 47, "print", {}, "box", TRUE),
       S(2, 67, "cylinder", {"cylinder"}, "", TRUE),
       S(2, 68, "assign", {"cylinder_mass"}, "", FALSE),
       S(2, 69, "density", {}, "", TRUE),
       S(2, 70, "print", {}, "cylinder", TRUE),
       S(3, 86, "euler", {"rotation"}, "", TRUE),
       S(3, 87, "apply_transform", {}, "", TRUE),
       S(3, 88, "show", {}, "", TRUE),
       S(3, 89, "print", {}, "cylinder", TRUE),
       S(4, 112, "import", {"path"}, "", TRUE),
       S(4, 113, "import", {"pin"}, "", TRUE),
       S(4, 114, "import", {"MeshcatVisualizer"}, "", TRUE),
       S(4, 115, "import", {"meshcat"}, "", TRUE),
       S(5, 124, "assign", {"MODEL_NAME"}, "", FALSE),
       S(5, 125, "assign", {"ROOT"}, "", FALSE),
       S(5, 126, "assign", {"FOLDER_PATH"}, "", FALSE),
       S(5, 127, "assign", {"MODEL_PATH"}, "", FALSE),
       S(5, 129, "buildModels", {"model", "collision_model", "visual_model"}, "", TRUE),
       S(5, 130, "createData", {"data"}, "", TRUE),
       S(6, 139, "visualizer", {"viz"}, "", TRUE),
       S(6, 140, "connect", {}, "", TRUE),
       S(6, 141, "send", {}, "", TRUE),
       S(6, 145, "send", {}, "", TRUE),
       S(6, 148, "neutral", {"q0"}, "", TRUE),
       S(6, 149, "send", {}, "", TRUE),
       S(6, 150, "send", {}, "", TRUE),
       S(7, 159, "jupyter_cell", {}, "", TRUE),
       S(8, 175, "inspectModel", {}, "", TRUE),
       S(9, 184, "inspectModel", {}, "", TRUE),
       S(10, 193, "inspectModel", {}, "", TRUE),
       S(11, 202, "inspectModel", {}, "", TRUE),
       S(12, 211, "inspectModel", {}, "", TRUE),
       S(13, 220, "inspectModel", {}, "", TRUE),
       S(14, 236, "neutral", {"q"}, "", TRUE),
       S(14, 237, "fk", {}, "", TRUE),
       S(15, 246, "inspectData", {}, "joints", TRUE),
       S(16, 255, "inspectData", {}, "oMi", TRUE),
       S(17, 264, "inspectData", {}, "oMf", TRUE),
       S(18, 273, "inspectData", {}, "v", TRUE),
       S(19, 282, "inspectData", {}, "a", TRUE),
       S(20, 291, "inspectData", {}, "f", TRUE),
       S(21, 300, "inspectData", {}, "M", TRUE),
       S(22, 309, "inspectData", {}, "nle", TRUE),
       S(23, 318, "inspectData", {}, "hg", TRUE),
       S(24, 327, "inspectData", {}, "Ag", TRUE),
       S(25, 336, "inspectData", {}, "Ig", TRUE),
       S(26, 345, "assign", {"LINK_NAME"}, "", FALSE),
       S(26, 346, "getBodyId", {"LINK_ID"}, "", TRUE),
       S(26, 347, "neutral", {"q"}, "", TRUE),
       S(26, 348, "fk", {}, "", TRUE),
       S(26, 349, "readFrame", {"iMd"}, "", TRUE),
       S(26, 350, "printPose", {}, "", TRUE),
       S(27, 359, "random", {"M"}, "", TRUE),
       S(27, 360, "inspectM", {}, "", TRUE),
       S(28, 369, "inspectM", {}, "", TRUE),
       S(29, 378, "inspectM", {}, "", TRUE),
       S(30, 387, "rebuild", {}, "", TRUE),
       S(31, 396, "inverse", {}, "", TRUE),
       S(32, 405, "product", {}, "", TRUE),
       S(33, 414, "inspectM", {}, "", TRUE),
       S(34, 423, "inspectM", {}, "", TRUE) >>
End == Len(Program) + 1
\* the index of the statement at a line of the notebook
StmtAt(line) == CHOOSE i \in DOMAIN Program : Program[i].line = line
\* after a statement the next one in document order runs
NextStmtRetry(p) == IF p > 1 /\ Program[p].cell # Program[p - 1].cell THEN p - 1 ELSE p + 1
NextStmt(p) == p + 1
\* a raising statement binds nothing: the exception leaves the cell
BoundAfterRaiseDefault(b, binds) == b \cup binds
BoundAfterRaise(b, binds) == b

(***************************************************************************)
(* State of a run.                                                         *)
(*   pc, status   the statement to run next; running, failed or done       *)
(*   bound        the names bound in the kernel                            *)
(*   trace        the statements run so far                                *)
(*   waiting      line 140 has sent its request and waits for the reply    *)
(*   server, net  a meshcat server listens on tcp://127.0.0.1:6000; the    *)
(*                network events of the run                                *)
(*   urdf         the contents of two_bodies.urdf                          *)
(*   printed      what the trimesh cells printed                           *)
(*   written      for each Data field, the call that last wrote it         *)
(*   reads, shown the Data fields inspected and the poses they showed      *)
(***************************************************************************)
Unset == SE3(<<Zero3, Zero3, Zero3>>, Zero3)
NoMesh == [made |-> FALSE]
netv == <<waiting, server>>
triv == <<box_one, cylinder, printed>>
pinv == <<model, data, written, reads, q, LINK_ID, iMd, shown>>
sev == <<M, outM>>

Init ==
    /\ pc = 1 /\ status = "running" /\ bound = {} /\ trace = <<>>
    /\ waiting = FALSE /\ server \in BOOLEAN /\ net = {}
    /\ urdf \in UrdfFiles
    /\ box_one = NoMesh /\ cylinder = NoMesh /\ printed = <<>>
    /\ model = NoModel /\ data = NoData
    /\ written = [f \in DataFields |-> "unset"]
    /\ reads = {} /\ q = <<>> /\ LINK_ID = -1 /\ iMd = Unset
    /\ shown = [oMi |-> <<>>, oMf |-> <<>>]
    /\ M = Unset /\ outM = [rebuilt |-> Unset, inv |-> Unset, prod |-> Unset]

Cur == Program[pc]
\* the network events of a statement that completes: the reply line 140
\* waited for; a command sent to the server and its acknowledgement
NetEventsOfAny(st) ==
    IF st.kind \in {"connect", "jupyter_cell"}
    THEN {[line |-> st.line, cell |-> st.cell, event |-> "recv"]}
    ELSE IF st.kind = "send"
    THEN {[line |-> st.line, cell |-> st.cell, event |-> "send"], [line |-> st.line, cell |-> st.cell, event |-> "recv"]}
    ELSE {}
NetEventsOf(st) ==
    IF st.kind = "connect"
    THEN {[line |-> st.line, cell |-> st.cell, event |-> "recv"]}
    ELSE IF st.kind = "send"
    THEN {[line |-> st.line, cell |-> st.cell, event |-> "send"], [line |-> st.line, cell |-> st.cell, event |-> "recv"]}
    ELSE {}
At_(k) == status = "running" /\ pc \in DOMAIN Program /\ Cur.kind = k
Advance ==
    /\ pc' = NextStmt(pc)
    /\ trace' = Append(trace, pc)
    /\ bound' = bound \cup Cur.binds
    /\ status' = status
    /\ net' = net \cup NetEventsOf(Cur)

\* import ... (lines 42, 112-115)
Import == At_("import") /\ Advance /\ UNCHANGED <<netv, urdf, triv, pinv, sev>>
\* NAME = constant (lines 68, 124-127, 345)
Assign == At_("assign") /\ Advance /\ UNCHANGED <<netv, urdf, triv, pinv, sev>>
\* box_one = tr.primitives.Box(extents = [.4, .2, .1])
MakeBox ==
    /\ At_("box") /\ Advance
    /\ box_one' = Box
    /\ UNCHANGED <<netv, urdf, cylinder, printed, pinv, sev>>
\* box_one.density = 7800
BoxDensity ==
    /\ At_("boxdensity") /\ Advance
    /\ box_one' = [box_one EXCEPT !.density = Rat(steel_density, 1)]
    /\ UNCHANGED <<netv, urdf, cylinder, printed, pinv, sev>>
\* cylinder = tr.primitives.Cylinder(radius=.05, height=.15)
MakeCylinder ==
    /\ At_("cylinder") /\ Advance
    /\ cylinder' = Cylinder
    /\ UNCHANGED <<netv, urdf, box_one, printed, pinv, sev>>
\* cylinder.density = cylinder_mass / cylinder.volume
SetDensity ==
    /\ At_("density") /\ Advance
    /\ cylinder' = DensityForMass(cylinder, cylinder_mass)
    /\ UNCHANGED <<netv, urdf, box_one, printed, pinv, sev>>
\* rotation = tr.transformations.euler_matrix(1, 0, 0, axes='sxyz')
Euler == At_("euler") /\ Advance /\ UNCHANGED <<netv, urdf, triv, pinv, sev>>
\* cylinder.apply_transform(rotation)
ApplyTransform ==
    /\ At_("apply_transform") /\ Advance
    /\ cylinder' = apply_transform(cylinder, euler_matrix_x)
    /\ UNCHANGED <<netv, urdf, box_one, printed, pinv, sev>>
\* cylinder.show(): an inline scene in the notebook
Show == At_("show") /\ Advance /\ UNCHANGED <<netv, urdf, triv, pinv, sev>>
\* print(box_one.mass), print(...moment_inertia): the body the printed value
\* belongs to, with its mass and orientation at that moment
PrintTrimesh ==
    /\ At_("print") /\ Advance
    /\ printed' = Append(printed,
          IF Cur.field = "cylinder"
          THEN [line |-> Cur.line, mass |-> CylinderMass(cylinder),
                transform |-> cylinder.transform]
          ELSE [line |-> Cur.line, mass |-> BoxMass(box_one),
                transform |-> [num |-> Identity3, den |-> 1]])
    /\ UNCHANGED <<netv, urdf, box_one, cylinder, pinv, sev>>

\* model, collision_model, visual_model =
\*     pin.buildModelsFromUrdf(MODEL_PATH, None, pin.JointModelFreeFlyer())
BuildModels ==
    /\ At_("buildModels") /\ Parses(urdf) /\ Advance
    /\ model' = buildModelsFromUrdf(urdf, "JointModelFreeFlyer")
    /\ UNCHANGED <<netv, urdf, triv, data, written, reads, q, LINK_ID, iMd, shown, sev>>
\* data = model.createData()
CreateData ==
    /\ At_("createData") /\ Advance
    /\ data' = createData(model)
    /\ written' = [f \in DataFields |-> "createData"]
    /\ UNCHANGED <<netv, urdf, triv, model, reads, q, LINK_ID, iMd, shown, sev>>
\* viz = MeshcatVisualizer(model, collision_model, visual_model): the
\* visualizer makes a Data of its own
MakeVisualizer ==
    /\ At_("visualizer") /\ Advance
    /\ UNCHANGED <<netv, urdf, triv, pinv, sev>>
\* viz.viewer = meshcat.Visualizer(zmq_url="tcp://127.0.0.1:6000"): connects
\* to the server and asks it for its url ...
ViewerConnect ==
    /\ At_("connect") /\ ~waiting
    /\ waiting' = TRUE
    /\ net' = net \cup {[line |-> Cur.line, cell |-> Cur.cell, event |-> "connect"],
                        [line |-> Cur.line, cell |-> Cur.cell, event |-> "send"]}
    /\ UNCHANGED <<pc, status, bound, trace, server, urdf, triv, pinv, sev>>
\* ... and blocks until the server replies
ViewerReply ==
    /\ At_("connect") /\ waiting /\ server /\ Advance
    /\ waiting' = FALSE
    /\ UNCHANGED <<server, urdf, triv, pinv, sev>>
\* viz.clean(), viz.loadViewerModel(), viz.display(q0),
\* viz.displayVisuals(True): commands sent to the server
ViewerSend ==
    /\ At_("send") /\ server /\ Advance
    /\ UNCHANGED <<netv, urdf, triv, pinv, sev>>
\* q0 = pin.neutral(model), q = pin.neutral(model)
Neutral ==
    /\ At_("neutral") /\ Advance
    /\ q' = IF "q" \in Cur.binds THEN neutral(model) ELSE q
    /\ UNCHANGED <<netv, urdf, triv, model, data, written, reads, LINK_ID, iMd, shown, sev>>
\* hasattr(viz.viewer, 'jupyter_cell') and viz.viewer.jupyter_cell()
JupyterCell == At_("jupyter_cell") /\ Advance /\ UNCHANGED <<netv, urdf, triv, pinv, sev>>
\* model.name ... print(model.nq, model.nv)
InspectModel == At_("inspectModel") /\ Advance /\ UNCHANGED <<netv, urdf, triv, pinv, sev>>
\* pin.framesForwardKinematics(model, data, q)
ForwardKinematics ==
    /\ At_("fk") /\ Advance
    /\ data' = framesForwardKinematics(model, data, q)
    /\ written' = [f \in DataFields |->
                     IF f \in FKWrites THEN "framesForwardKinematics" ELSE written[f]]
    /\ UNCHANGED <<netv, urdf, triv, model, reads, q, LINK_ID, iMd, shown, sev>>
\* data.joints.tolist() ... data.Ig
InspectData ==
    /\ At_("inspectData") /\ Advance
    /\ reads' = reads \cup {[field |-> Cur.field, writer |-> written[Cur.field]]}
    /\ shown' = IF Cur.field = "oMi" THEN [shown EXCEPT !.oMi = data.oMi]
                ELSE IF Cur.field = "oMf" THEN [shown EXCEPT !.oMf = data.oMf]
                ELSE shown
    /\ UNCHANGED <<netv, urdf, triv, model, data, written, q, LINK_ID, iMd, sev>>
\* LINK_ID = model.getBodyId(LINK_NAME)
GetBodyId ==
    /\ At_("getBodyId") /\ Advance
    /\ LINK_ID' = getBodyId(model, "body_two")
    /\ UNCHANGED <<netv, urdf, triv, model, data, written, reads, q, iMd, shown, sev>>
\* iMd = data.oMf[LINK_ID]: an IndexError when LINK_ID is out of range
ReadFrame ==
    /\ At_("readFrame") /\ LINK_ID \in 0..(Len(data.oMf) - 1) /\ Advance
    /\ iMd' = At(data.oMf, LINK_ID)
    /\ UNCHANGED <<netv, urdf, triv, model, data, written, reads, q, LINK_ID, shown, sev>>
\* print(iMd)
PrintPose == At_("printPose") /\ Advance /\ UNCHANGED <<netv, urdf, triv, pinv, sev>>

\* M = pin.SE3.Random()
Random ==
    /\ At_("random") /\ Advance
    /\ M' \in SE3Random
    /\ UNCHANGED <<netv, urdf, triv, pinv, outM>>
\* print(M), M.rotation, M.translation, print(M.action), print(M.homogeneous)
InspectM == At_("inspectM") /\ Advance /\ UNCHANGED <<netv, urdf, triv, pinv, sev>>
\* print(pin.SE3(M.rotation, M.translation))
Rebuild ==
    /\ At_("rebuild") /\ Advance
    /\ outM' = [outM EXCEPT !.rebuilt = SE3(M.rotation, M.translation)]
    /\ UNCHANGED <<netv, urdf, triv, pinv, M>>
\* print(M.inverse())
Inverse ==
    /\ At_("inverse") /\ Advance
    /\ outM' = [outM EXCEPT !.inv = inverse(M)]
    /\ UNCHANGED <<netv, urdf, triv, pinv, M>>
\* print(M * M.inverse())
Product ==
    /\ At_("product") /\ Advance
    /\ outM' = [outM EXCEPT !.prod = SE3Mul(M, inverse(M))]
    /\ UNCHANGED <<netv, urdf, triv, pinv, M>>

\* a library call raises: no cell has a try, so the exception ends the run
\* at that statement. Line 129 raises when the file is missing or does not
\* parse; line 349 when LINK_ID is out of range.
Raises ==
    \/ Cur.kind = "buildModels" /\ ~Parses(urdf)
    \/ Cur.kind = "readFrame" /\ LINK_ID \notin 0..(Len(data.oMf) - 1)
    \/ Cur.kind \notin {"buildModels", "readFrame"} /\ Cur.raises
Raise ==
    /\ status = "running" /\ pc \in DOMAIN Program /\ ~waiting
    /\ Raises
    /\ status' = "failed"
    /\ trace' = Append(trace, pc)
    /\ bound' = BoundAfterRaise(bound, Cur.binds)
    /\ UNCHANGED <<pc, netv, net, urdf, triv, pinv, sev>>
\* the last cell has run
Finish ==
    /\ status = "running" /\ pc = End
    /\ status' = "done"
    /\ UNCHANGED <<pc, bound, trace, netv, net, urdf, triv, pinv, sev>>

Next ==
    \/ Import \/ Assign \/ MakeBox \/ BoxDensity \/ MakeCylinder \/ SetDensity
    \/ Euler \/ ApplyTransform \/ Show \/ PrintTrimesh
    \/ BuildModels \/ CreateData \/ MakeVisualizer
    \/ ViewerConnect \/ ViewerReply \/ ViewerSend \/ Neutral \/ JupyterCell
    \/ InspectModel \/ ForwardKinematics \/ InspectData
    \/ GetBodyId \/ ReadFrame \/ PrintPose
    \/ Random \/ InspectM \/ Rebuild \/ Inverse \/ Product
    \/ Raise \/ Finish
Spec == Init /\ [][Next]_vars

(***************************************************************************)
(* Forward kinematics as a function of the configuration: the loaded model *)
(* with framesForwardKinematics applied at configurations other than the   *)
(* neutral one.                                                            *)
(***************************************************************************)
UnitQuats == {<<1, 0, 0, 0>>, <<0, 1, 0, 0>>, <<0, 0, 1, 0>>, <<0, 0, 0, 1>>,
              <<-1, 0, 0, 0>>, <<0, -1, 0, 0>>, <<0, 0, -1, 0>>, <<0, 0, 0, -1>>}
FreeFlyerConfigs == {<<x, y, z>> \o u : x \in 0..MaxQ, y \in 0..MaxQ, z \in 0..MaxQ,
                                        u \in UnitQuats}
RECURSIVE ConfigsFrom(_, _)
ConfigsFrom(m, i) ==
    IF i > njoints(m) THEN {<<>>}
    ELSE {a \o b : a \in (IF m.nqs[i] = FreeFlyerNq THEN FreeFlyerConfigs ELSE {<<>>}),
                   b \in ConfigsFrom(m, i + 1)}
Configurations(m) == ConfigsFrom(m, 1)

InitKin ==
    /\ pc = StmtAt(237) /\ status = "running" /\ trace = <<>>
    /\ bound = UNION {Program[i].binds : i \in 1..(StmtAt(237) - 1)}
    /\ waiting = FALSE /\ server = TRUE /\ net = {}
    /\ urdf \in TwoBodies
    /\ box_one = NoMesh /\ cylinder = NoMesh /\ printed = <<>>
    /\ model = buildModelsFromUrdf(urdf, "JointModelFreeFlyer")
    /\ data = createData(model)
    /\ written = [f \in DataFields |-> "createData"]
    /\ reads = {} /\ q = neutral(model) /\ LINK_ID = -1 /\ iMd = Unset
    /\ shown = [oMi |-> <<>>, oMf |-> <<>>]
    /\ M = Unset /\ outM = [rebuilt |-> Unset, inv |-> Unset, prod |-> Unset]
\* q = a configuration of the model; pin.framesForwardKinematics(model, data, q)
KinForwardKinematics ==
    /\ q = neutral(model) /\ written["oMf"] = "createData"
    /\ \E qq \in Configurations(model) :
          /\ q' = qq
          /\ data' = framesForwardKinematics(model, data, qq)
    /\ written' = [f \in DataFields |->
                     IF f \in FKWrites THEN "framesForwardKinematics" ELSE written[f]]
    /\ UNCHANGED <<pc, status, bound, trace, netv, net, urdf, triv, model, reads,
                   LINK_ID, iMd, shown, sev>>
\* q = pin.neutral(model); pin.framesForwardKinematics(model, data, q)
KinNeutral ==
    /\ q # neutral(model)
    /\ q' = neutral(model)
    /\ data' = framesForwardKinematics(model, data, neutral(model))
    /\ UNCHANGED <<pc, status, bound, trace, netv, net, urdf, triv, model, written,
                   reads, LINK_ID, iMd, shown, sev>>
NextKin == KinForwardKinematics \/ KinNeutral
SpecKin == InitKin /\ [][NextKin]_vars

(***************************************************************************)
(* Properties.                                                             *)
(***************************************************************************)
\* the statement at a line of the notebook has run to completion
After(line) == pc \notin DOMAIN Program \/ Program[pc].line > line
ViewerCell == Program[StmtAt(139)].cell
Five == Rat(cylinder_mass, 1)

\* C1: every Data field a cell inspects after the first
\* framesForwardKinematics call was populated by an earlier computation:
\* none is read while it still holds the value createData() gave it
C1_ReadsPopulated == \A r \in reads : r.writer # "createData"

\* C2: world is a fixed root: at every configuration q the poses of world
\* and body_one are the poses at the neutral configuration, and the only
\* degrees of freedom of the model are those of floating_joint
C2_WorldIsFixedRoot ==
    written["oMf"] = "framesForwardKinematics" =>
        LET atNeutral == framesForwardKinematics(model, createData(model), neutral(model))
            world == getBodyId(model, "world")
            body_one == getBodyId(model, "body_one")
        IN /\ At(data.oMf, world) = At(atNeutral.oMf, world)
           /\ At(data.oMf, body_one) = At(atNeutral.oMf, body_one)
           /\ model.nq = FreeFlyerNq /\ model.nv = FreeFlyerNv

C5_UnboundOnFailure ==
    /\ status = "failed" =>
          /\ pc = trace[Len(trace)]
          /\ bound = UNION {Program[i].binds : i \in 1..(pc - 1)}
    /\ (status = "failed" /\ Cur.line = 129) =>
          /\ bound \cap {"model", "collision_model", "visual_model", "data"} = {}
          /\ ~model.built /\ ~data.created
    /\ "data" \in bound => "model" \in bound
    /\ After(130) => /\ model.built /\ data.created
                     /\ {"model", "collision_model", "visual_model", "data"} \subseteq bound
\* C5: a failing library call ends the run at that statement: nothing
\* catches it, nothing retries it, no default is bound in place of its result;
\* after a failure of line 129 model, collision_model, visual_model and data
\* are unbound, and no statement after the load cell runs without a complete
\* model and its data
C5_FailurePropagates == [][status # "failed" /\ C5_UnboundOnFailure']_vars
C5_Witness == status = "failed" /\ Cur.line = 129 /\ urdf.status = "malformed"

\* C6: no step takes part in a network protocol and every step can complete
\* with no external server running
C6_NoNetwork == net = {} /\ ~waiting
\* the network events of the run all belong to the viewer cell
C6_OnlyViewerCell ==
    /\ \A e \in net : e.cell = ViewerCell
    /\ waiting => Cur.line = 140
    /\ ~server => ~After(140)
\* C6 as amended: only the viewer cell (lines 139-150) takes part in a network
\* protocol, and without a server the run stays at line 140; every other
\* statement causes no network event
C6_OnlyViewerCellTalks ==
    [][/\ C6_OnlyViewerCell'
       /\ (pc \in DOMAIN Program /\ Cur.cell # ViewerCell) => (net' = net /\ ~waiting')]_vars
C6_Witness == status = "done" /\ net # {}

\* C7: the second framesForwardKinematics call at the neutral q leaves in
\* data.oMi and data.oMf the poses the first call left there, so iMd is the
\* entry the data.oMf inspection showed for that frame
C7_SamePosesAtSameQ ==
    /\ After(348) => data.oMi = shown.oMi /\ data.oMf = shown.oMf
    /\ After(349) => iMd = At(shown.oMf, LINK_ID)
C7_Witness == After(349) /\ iMd # SE3Identity /\ iMd = At(shown.oMf, LINK_ID)

C9_LinkIdIsBodyTwo ==
    /\ After(346) =>
          /\ 0 <= LINK_ID /\ LINK_ID < nframes(model) /\ LINK_ID < Len(data.oMf)
          /\ At(model.frames, LINK_ID).name = "body_two"
          /\ At(model.frames, LINK_ID).type = "BODY"
    /\ After(349) =>
          iMd = SE3Mul(At(data.oMi, At(model.frames, LINK_ID).parent),
                       At(model.frames, LINK_ID).placement)
C9_Witness == After(349) /\ LINK_ID > 0 /\ status = "running"

====
